---------------------------- MODULE Spec2Model ----------------------------
(***************************************************************************)
(* A model of scripts/generate_formulas.py: the Homebrew formula generator *)
(* that reads release lists from the GitHub API, classifies assets by      *)
(* platform, renders formula files and keeps a window of pinned formulas.  *)
(*                                                                         *)
(* Python strings that the program parses (tags, versions, asset names,    *)
(* URLs, file names) are sequences of one-character strings, so that       *)
(* lstrip, split, int, replace, glob and the regular expressions are       *)
(* computed character by character as the program computes them.           *)
(***************************************************************************)
EXTENDS Integers, Sequences, FiniteSets, TLC

(***************************************************************************)
(* Words of the program's string literals.                                 *)
(***************************************************************************)
W_darwin == <<"d", "a", "r", "w", "i", "n">>
W_macos == <<"m", "a", "c", "o", "s">>
W_apple == <<"a", "p", "p", "l", "e">>
W_osx == <<"o", "s", "x">>
W_mac == <<"m", "a", "c">>
W_arm64 == <<"a", "r", "m", "6", "4">>
W_aarch64 == <<"a", "a", "r", "c", "h", "6", "4">>
W_x86_64 == <<"x", "8", "6", "_", "6", "4">>
W_amd64 == <<"a", "m", "d", "6", "4">>
W_linux == <<"l", "i", "n", "u", "x">>
W_darwin64 == <<"d", "a", "r", "w", "i", "n", "6", "4">>
W_linux64 == <<"l", "i", "n", "u", "x", "6", "4">>
W_tar_gz == <<".", "t", "a", "r", ".", "g", "z">>
W_tgz == <<".", "t", "g", "z">>
W_zip == <<".", "z", "i", "p">>
W_tar_xz == <<".", "t", "a", "r", ".", "x", "z">>
W_tar_bz2 == <<".", "t", "a", "r", ".", "b", "z", "2">>
W_rb == <<".", "r", "b">>

(***************************************************************************)
(* Python str primitives.                                                  *)
(***************************************************************************)
Digits == {"0", "1", "2", "3", "4", "5", "6", "7", "8", "9"}

DigitValue(c) ==
    CASE c = "0" -> 0 [] c = "1" -> 1 [] c = "2" -> 2 [] c = "3" -> 3
      [] c = "4" -> 4 [] c = "5" -> 5 [] c = "6" -> 6 [] c = "7" -> 7
      [] c = "8" -> 8 [] c = "9" -> 9

\* str.lower() / str.upper() on the letters the model's inputs use.
LowerChar(c) ==
    CASE c = "D" -> "d" [] c = "A" -> "a" [] c = "M" -> "m" [] c = "T" -> "t"
      [] c = "X" -> "x" [] OTHER -> c

UpperChar(c) ==
    CASE c = "d" -> "D" [] c = "a" -> "A" [] c = "m" -> "M" [] c = "t" -> "T"
      [] c = "x" -> "X" [] OTHER -> c

Lower(s) == [i \in 1..Len(s) |-> LowerChar(s[i])]

\* word.capitalize(): first character upper-cased, the rest lower-cased.
Capitalize(s) == [i \in 1..Len(s) |-> IF i = 1 THEN UpperChar(s[i]) ELSE LowerChar(s[i])]

\* s[i:i+len(sub)] == sub
OccursAt(s, sub, i) ==
    /\ i >= 1
    /\ i + Len(sub) - 1 <= Len(s)
    /\ SubSeq(s, i, i + Len(sub) - 1) = sub

\* sub in s
Contains(s, sub) == \E i \in 1..(Len(s) + 1) : OccursAt(s, sub, i)

StartsWith(s, pre) == OccursAt(s, pre, 1)

EndsWith(s, suf) == Len(suf) <= Len(s) /\ OccursAt(s, suf, Len(s) - Len(suf) + 1)

\* s.lstrip(c): every leading occurrence of the character c is removed.
RECURSIVE LStrip(_, _)
LStrip(s, c) ==
    IF Len(s) > 0 /\ Head(s) = c THEN LStrip(Tail(s), c) ELSE s

\* s.split(c) and re.split("[...]", s) for one-character separators (seps is
\* the set of separator characters): empty parts are kept.
RECURSIVE Split(_, _)
Split(s, seps) ==
    IF \A i \in 1..Len(s) : s[i] \notin seps
    THEN <<s>>
    ELSE LET i == CHOOSE k \in 1..Len(s) :
                      s[k] \in seps /\ \A j \in 1..(k - 1) : s[j] \notin seps
         IN  <<SubSeq(s, 1, i - 1)>> \o Split(SubSeq(s, i + 1, Len(s)), seps)

\* "".join(parts)
RECURSIVE Join(_)
Join(parts) == IF Len(parts) = 0 THEN <<>> ELSE Head(parts) \o Join(Tail(parts))

\* s.replace(old, new) for a non-empty old: every non-overlapping occurrence,
\* scanning from the left.
RECURSIVE Replace(_, _, _)
Replace(s, old, new) ==
    IF Len(s) = 0 THEN <<>>
    ELSE IF OccursAt(s, old, 1)
         THEN new \o Replace(SubSeq(s, Len(old) + 1, Len(s)), old, new)
         ELSE <<Head(s)>> \o Replace(Tail(s), old, new)

\* The strings int() accepts among the model's inputs: non-empty digit strings.
IsDigits(s) == Len(s) > 0 /\ \A i \in 1..Len(s) : s[i] \in Digits

\* int(s) for a digit string: leading zeros do not change the value.
RECURSIVE IntValue(_)
IntValue(s) ==
    IF Len(s) = 0 THEN 0
    ELSE 10 * IntValue(SubSeq(s, 1, Len(s) - 1)) + DigitValue(s[Len(s)])

\* Python's list comparison a < b on lists of integers.
RECURSIVE ListLess(_, _)
ListLess(a, b) ==
    IF Len(b) = 0 THEN FALSE
    ELSE IF Len(a) = 0 THEN TRUE
    ELSE IF Head(a) # Head(b) THEN Head(a) < Head(b)
    ELSE ListLess(Tail(a), Tail(b))

(***************************************************************************)
(* Version strings.                                                        *)
(***************************************************************************)
extract_version(tag) == LStrip(tag, "v")

extract_major_minor(version) ==
    LET parts == Split(version, {"."})
    IN  IF Len(parts) >= 2 THEN parts[1] \o <<".">> \o parts[2] ELSE version

\* The sort key of line 371, [int(x) for x in v.split(".")], and whether
\* computing it raises ValueError.
SortKeyRaises(v) == \E i \in 1..Len(Split(v, {"."})) : ~IsDigits(Split(v, {"."})[i])

SortKey(v) == [i \in 1..Len(Split(v, {"."})) |-> IntValue(Split(v, {"."})[i])]

\* sorted(keys, key=SortKey, reverse=True): a stable sort, so keys with equal
\* sort keys keep the order they had in the input.
RECURSIVE SortedDescending(_)
SortedDescending(keys) ==
    IF Len(keys) = 0 THEN <<>>
    ELSE LET front == SortedDescending(SubSeq(keys, 1, Len(keys) - 1))
             x == keys[Len(keys)]
             \* x goes before the first element whose key is smaller than x's
             smaller == {i \in 1..Len(front) : ListLess(SortKey(front[i]), SortKey(x))}
             pos == IF smaller = {} THEN Len(front) + 1
                    ELSE CHOOSE i \in smaller : \A j \in smaller : i <= j
         IN  SubSeq(front, 1, pos - 1) \o <<x>> \o SubSeq(front, pos, Len(front))

(***************************************************************************)
(* Asset classification.                                                   *)
(***************************************************************************)
Platforms == {"macos_arm64", "macos_x86_64", "linux_arm64", "linux_x86_64"}

None == "None"

\* PLATFORM_PATTERNS in dictionary order. A pattern a.*b is the pair <<a, b>>,
\* a literal pattern the singleton <<a>>.
PLATFORM_PATTERNS ==
    << [platform |-> "macos_arm64",
        patterns |-> << <<W_darwin, W_arm64>>, <<W_darwin, W_aarch64>>,
                        <<W_macos, W_arm64>>, <<W_macos, W_aarch64>>,
                        <<W_apple, W_arm64>>, <<W_apple, W_aarch64>>,
                        <<W_osx, W_arm64>>, <<W_osx, W_aarch64>>,
                        <<W_mac, W_arm64>>, <<W_mac, W_aarch64>> >>],
       [platform |-> "macos_x86_64",
        patterns |-> << <<W_darwin, W_x86_64>>, <<W_darwin, W_amd64>>,
                        <<W_macos, W_x86_64>>, <<W_macos, W_amd64>>,
                        <<W_apple, W_x86_64>>, <<W_apple, W_amd64>>,
                        <<W_osx, W_x86_64>>, <<W_osx, W_amd64>>,
                        <<W_mac, W_x86_64>>, <<W_mac, W_amd64>>,
                        <<W_darwin64>> >>],
       [platform |-> "linux_arm64",
        patterns |-> << <<W_linux, W_arm64>>, <<W_linux, W_aarch64>> >>],
       [platform |-> "linux_x86_64",
        patterns |-> << <<W_linux, W_x86_64>>, <<W_linux, W_amd64>>,
                        <<W_linux64>> >>] >>

ARCHIVE_EXTENSIONS == <<W_tar_gz, W_tgz, W_zip, W_tar_xz, W_tar_bz2>>

\* re.search(pattern, s) for the two pattern shapes above.
RegexSearch(pattern, s) ==
    IF Len(pattern) = 1
    THEN Contains(s, pattern[1])
    ELSE \E i \in 1..Len(s) :
            /\ OccursAt(s, pattern[1], i)
            /\ \E j \in (i + Len(pattern[1]))..Len(s) : OccursAt(s, pattern[2], j)

\* Whether some pattern of PLATFORM_PATTERNS[k] is found in the lower-cased name.
PlatformMatches(k, name_lower) ==
    \E p \in 1..Len(PLATFORM_PATTERNS[k].patterns) :
        RegexSearch(PLATFORM_PATTERNS[k].patterns[p], name_lower)

HasArchiveExtension(name_lower) ==
    \E e \in 1..Len(ARCHIVE_EXTENSIONS) : EndsWith(name_lower, ARCHIVE_EXTENSIONS[e])

\* A mutant: the archive-extension test is left out.
detect_platform_any_extension(asset_name) ==
    LET name_lower == Lower(asset_name)
        hits == {k \in 1..Len(PLATFORM_PATTERNS) : PlatformMatches(k, name_lower)}
    IN  IF hits = {} THEN None
        ELSE PLATFORM_PATTERNS[CHOOSE k \in hits : \A j \in hits : k <= j].platform

detect_platform(asset_name) ==
    LET name_lower == Lower(asset_name)
        hits == {k \in 1..Len(PLATFORM_PATTERNS) : PlatformMatches(k, name_lower)}
    IN  IF ~HasArchiveExtension(name_lower) THEN None
        ELSE IF hits = {} THEN None
        ELSE PLATFORM_PATTERNS[CHOOSE k \in hits : \A j \in hits : k <= j].platform

match_asset_pattern(asset_name, pattern) == Contains(Lower(asset_name), Lower(pattern))

\* The platform one asset is filed under (None: it is dropped). asset_patterns is
\* the project's dictionary in its declared order, a sequence of
\* [platform, pattern] records.
AssetPlatform(name, asset_patterns) ==
    IF Len(asset_patterns) > 0
    THEN LET hits == {k \in 1..Len(asset_patterns) :
                         match_asset_pattern(name, asset_patterns[k].pattern)}
         IN  IF hits = {} THEN None
             ELSE asset_patterns[CHOOSE k \in hits : \A j \in hits : k <= j].platform
    ELSE detect_platform(name)

\* The loop of find_release_assets over the first n assets: a later asset
\* filed under the same platform overwrites the earlier one.
RECURSIVE FindAssetsUpTo(_, _, _)
FindAssetsUpTo(assets_data, asset_patterns, n) ==
    IF n = 0 THEN << >>
    ELSE LET before == FindAssetsUpTo(assets_data, asset_patterns, n - 1)
             a == assets_data[n]
             platform == AssetPlatform(a.name, asset_patterns)
         IN  IF platform = None THEN before
             ELSE (platform :> [name |-> a.name, url |-> a.url, sha256 |-> << >>])
                      @@ before

find_release_assets(release_data, project) ==
    FindAssetsUpTo(release_data.assets, project.asset_patterns, Len(release_data.assets))

(***************************************************************************)
(* Formula rendering.                                                      *)
(***************************************************************************)
\* The text "v#{version}" that replaces the tag in a URL; the Ruby template
\* expression is one symbol.
VersionTemplate == <<"v", "#{version}">>

\* asset.url.replace(release.tag, "v#{version}")
RenderUrl(url, tag) == Replace(url, tag, VersionTemplate)

\* The url/sha256 lines of one OS block: empty when the block is omitted, one
\* entry when emitted unconditionally, two (arm first) under the
\* Hardware::CPU.arm? branch.
OsBlock(release, arm, x86) ==
    LET line(p) == [url |-> RenderUrl(release.assets[p].url, release.tag),
                    sha256 |-> release.assets[p].sha256]
        has(p) == p \in DOMAIN release.assets
    IN  IF has(arm) /\ has(x86) THEN <<line(arm), line(x86)>>
        ELSE IF has(arm) THEN <<line(arm)>>
        ELSE IF has(x86) THEN <<line(x86)>>
        ELSE << >>

ClassName(project, release, is_versioned) ==
    LET words == Split(project.name, {"-", "_"})
        base == Join([i \in 1..Len(words) |-> Capitalize(words[i])])
    IN  IF is_versioned
        THEN base \o <<"A", "T">> \o Replace(release.major_minor, <<".">>, <<>>)
        ELSE base

generate_formula(project, release, is_versioned) ==
    [class_name |-> ClassName(project, release, is_versioned),
     desc |-> project.description,
     homepage |-> project.homepage,
     license |-> project.license,
     version |-> release.version,
     on_macos |-> OsBlock(release, "macos_arm64", "macos_x86_64"),
     on_linux |-> OsBlock(release, "linux_arm64", "linux_x86_64"),
     binary_name |-> project.binary_name]

(***************************************************************************)
(* The formula directory: a function from the names of the files present   *)
(* to their contents.                                                      *)
(***************************************************************************)
CanonicalFile(project_name) == project_name \o W_rb

PinnedFile(project_name, major_minor) ==
    project_name \o <<"@">> \o major_minor \o W_rb

\* A mutant: every file of the directory is listed.
find_existing_versioned_formulas_no_glob(formula_dir, project_name) ==
    DOMAIN formula_dir

\* formula_dir.glob(f"{project_name}@*.rb")
find_existing_versioned_formulas(formula_dir, project_name) ==
    {f \in DOMAIN formula_dir :
        /\ StartsWith(f, project_name \o <<"@">>)
        /\ EndsWith(f, W_rb)
        /\ Len(f) >= Len(project_name) + 1 + Len(W_rb)}

\* \d+\.\d+
IsDigitsDotDigits(s) ==
    \E k \in 1..Len(s) :
        /\ s[k] = "."
        /\ IsDigits(SubSeq(s, 1, k - 1))
        /\ IsDigits(SubSeq(s, k + 1, Len(s)))

\* re.search(rf"{re.escape(project_name)}@(\d+\.\d+)\.rb$", file_name): the
\* start positions of a match, and group 1 of the leftmost one (None without a
\* match).
VersionMatchStarts(project_name, file_name) ==
    LET prefix == project_name \o <<"@">>
    IN  {i \in 1..Len(file_name) :
            /\ OccursAt(file_name, prefix, i)
            /\ EndsWith(file_name, W_rb)
            /\ i + Len(prefix) <= Len(file_name) - Len(W_rb)
            /\ IsDigitsDotDigits(SubSeq(file_name, i + Len(prefix),
                                        Len(file_name) - Len(W_rb)))}

VersionInFileName(project_name, file_name) ==
    LET starts == VersionMatchStarts(project_name, file_name)
        i == CHOOSE k \in starts : \A j \in starts : k <= j
    IN  IF starts = {} THEN None
        ELSE SubSeq(file_name, i + Len(project_name) + 1, Len(file_name) - Len(W_rb))

\* A mutant: dry_run is ignored and the files are unlinked.
cleanup_old_versions_ignores_dry_run(formula_dir, project_name, keep_versions, dry_run) ==
    LET existing == find_existing_versioned_formulas(formula_dir, project_name)
        removed == {f \in existing :
                       /\ VersionInFileName(project_name, f) # None
                       /\ VersionInFileName(project_name, f) \notin keep_versions}
    IN  [removed |-> removed,
         formula_dir |-> [f \in DOMAIN formula_dir \ removed |-> formula_dir[f]]]

\* The files removed (or, in a dry run, reported) and the directory afterwards.
cleanup_old_versions(formula_dir, project_name, keep_versions, dry_run) ==
    LET existing == find_existing_versioned_formulas(formula_dir, project_name)
        removed == {f \in existing :
                       /\ VersionInFileName(project_name, f) # None
                       /\ VersionInFileName(project_name, f) \notin keep_versions}
    IN  [removed |-> removed,
         formula_dir |-> IF dry_run THEN formula_dir
                         ELSE [f \in DOMAIN formula_dir \ removed |-> formula_dir[f]]]

(***************************************************************************)
(* Bounds of the model.                                                    *)
(***************************************************************************)
\* The longest release list the API returns.
MaxReleases == 3

\* The largest keep_versions of a configured project.
MaxKeep == 1

\* The longest tag of the exhaustive tag universe.
MaxTagLen == 4

\* The longest asset list of the exhaustive asset universe.
MaxAssets == 2

(***************************************************************************)
(* The configuration (projects.yaml) and the remote side (the GitHub API). *)
(***************************************************************************)
\* Project(...) with __post_init__'s defaults.
Project(repo, description, license, keep_versions, asset_patterns) ==
    LET name == Split(repo, {"/"})[Len(Split(repo, {"/"}))]
    IN  [repo |-> repo,
         name |-> name,
         description |-> description,
         license |-> license,
         homepage |-> <<"https://github.com/">> \o repo,
         binary_name |-> name,
         keep_versions |-> keep_versions,
         asset_patterns |-> asset_patterns]

Repo_t == <<"o", "/", "t">>
Repo_xt == <<"o", "/", "x", "t">>
\* A repository whose single release may carry any tag.
Repo_g == <<"g", "/", "t">>
\* A repository whose single release may carry any asset list.
Repo_a == <<"a", "/", "t">>

\* browser_download_url of an asset: .../releases/download/<tag>/<name>
DownloadUrl(tag, name) == <<"/">> \o tag \o <<"/">> \o name

ReleaseData(tag, prerelease, draft, names) ==
    [tag_name |-> tag, prerelease |-> prerelease, draft |-> draft,
     assets |-> [i \in 1..Len(names) |-> [name |-> names[i],
                                          url |-> DownloadUrl(tag, names[i])]]]

\* The sequences of at most n distinct elements of S.
DistinctSeqs(S, n) ==
    {q \in UNION {[1..k -> S] : k \in 0..n} :
        \A i, j \in 1..Len(q) : i # j => q[i] # q[j]}

Asset_mac == W_mac \o <<"-">> \o W_arm64 \o W_tgz
Asset_linux == W_linux64 \o W_zip
Asset_sig == W_mac \o <<"-">> \o W_arm64 \o <<".", "s", "i", "g">>

\* The releases of o/t: a newest patch without binaries, an older patch of the
\* same minor, two minors that are the same number, a prerelease and a tag
\* that is no version.
Releases_t ==
    { ReleaseData(<<"v", "1", ".", "1", "0", ".", "1">>, FALSE, FALSE, <<Asset_sig>>),
      ReleaseData(<<"v", "1", ".", "1", "0", ".", "0">>, FALSE, FALSE, <<Asset_mac, Asset_linux>>),
      ReleaseData(<<"v", "1", ".", "9", ".", "0">>, FALSE, FALSE, <<Asset_mac>>),
      ReleaseData(<<"v", "1", ".", "0", "9", ".", "0">>, FALSE, FALSE, <<Asset_linux>>),
      ReleaseData(<<"v", "2", ".", "0", ".", "0">>, TRUE, FALSE, <<Asset_mac>>),
      ReleaseData(<<"n">>, FALSE, FALSE, <<Asset_mac>>) }

Releases_xt ==
    { ReleaseData(<<"v", "2", ".", "0", ".", "0">>, FALSE, FALSE, <<Asset_linux>>),
      ReleaseData(<<"v", "2", ".", "1", ".", "0">>, FALSE, TRUE, <<Asset_linux>>) }

TagAlphabet == {"v", "1", "."}

AllTags == UNION {[1..k -> TagAlphabet] : k \in 1..MaxTagLen}

AssetNames ==
    { Asset_mac,
      Asset_linux,
      Asset_sig,
      W_macos \o <<"-">> \o W_arm64 \o <<"-">> \o W_x86_64 \o W_zip,
      W_darwin \o <<"-">> \o W_amd64 \o W_tar_gz,
      <<"D">> \o Tail(W_darwin) \o <<"-">> \o W_linux \o <<"-">> \o W_aarch64 \o W_zip,
      <<"w", "i", "n", "-">> \o W_amd64 \o W_zip }

ReleaseLists_t == DistinctSeqs(Releases_t, MaxReleases)

ReleaseLists_xt == DistinctSeqs(Releases_xt, MaxReleases)

ReleaseLists_g ==
    {<< >>} \cup
    {<<ReleaseData(tag, FALSE, FALSE, <<<<"t", "-">> \o tag \o <<"-">> \o Asset_linux>>)>> :
        tag \in AllTags}

ReleaseLists_a ==
    {<< >>} \cup
    {<<ReleaseData(<<"v", "1", ".", "0">>, FALSE, FALSE, names)>> :
        names \in DistinctSeqs(AssetNames, MaxAssets)}

\* What GET repos/<repo>/releases may answer, an HTTP error aside.
ReleaseLists(repo) ==
    CASE repo = Repo_t -> ReleaseLists_t
      [] repo = Repo_xt -> ReleaseLists_xt
      [] repo = Repo_g -> ReleaseLists_g
      [] repo = Repo_a -> ReleaseLists_a

\* What GET repos/<repo> answers, an HTTP error aside: the description (empty:
\* null or "") and the license object (the empty sequence: null).
RepoInfo(repo) ==
    IF repo = Repo_xt
    THEN [description |-> <<"d">>, license |-> << >>]
    ELSE [description |-> << >>, license |-> <<[spdx_id |-> "Apache-2.0"]>>]

CustomPatterns ==
    << [platform |-> "macos_arm64", pattern |-> <<"D">> \o Tail(W_darwin)],
       [platform |-> "linux_x86_64", pattern |-> W_amd64],
       [platform |-> "linux_arm64", pattern |-> W_linux] >>

(***************************************************************************)
(* The state of a run.                                                     *)
(***************************************************************************)
VARIABLES
    pc,                  \* where the run is
    projects,            \* main: the loaded, then filtered, project list
    args_project,        \* main: --project (None: not given)
    dry_run,             \* main: --dry-run
    formula_dir,         \* the formula directory's files and their contents
    idx,                 \* main: the number of projects the loop has finished
    success_count,       \* main
    exit_status,         \* the process's exit status (<< >>: still running)
    calls,               \* the process_project calls made, with their results
    project,             \* process_project: its project (mutated by get_repo)
    releases_data,       \* process_project
    releases_by_minor,   \* process_project: the dictionary, in insertion order
    sorted_versions,     \* process_project
    versions_to_keep,    \* process_project
    vi,                  \* process_project: position in versions_to_keep
    generated_releases,  \* process_project: the dictionary, in insertion order
    gi,                  \* process_project: position in generated_releases
    versions_to_keep_set,\* the keep_versions argument of cleanup_old_versions
    removed,             \* what cleanup_old_versions returned
    result,              \* what process_project returns (None: not yet)
    error,               \* why process_project fails ("": it has not)
    dir_before,          \* formula_dir when the current call started
    written              \* the files the current call has written

vars == <<pc, projects, args_project, dry_run, formula_dir, idx, success_count,
          exit_status, calls, project, releases_data, releases_by_minor,
          sorted_versions, versions_to_keep, vi, generated_releases, gi,
          versions_to_keep_set, removed, result, error, dir_before, written>>

mainVars == <<projects, args_project, dry_run, idx, success_count, exit_status, calls>>

fetchVars == <<releases_data, releases_by_minor, sorted_versions, versions_to_keep>>

\* Python's True and False as process_project returns them.
True == "True"

False == "False"

NoProject == Project(<< >>, << >>, "", 0, << >>)

\* The locals of process_project before its first statement.
LocalsInit ==
    /\ project = NoProject
    /\ releases_data = << >>
    /\ releases_by_minor = << >>
    /\ sorted_versions = << >>
    /\ versions_to_keep = << >>
    /\ vi = 0
    /\ generated_releases = << >>
    /\ gi = 0
    /\ versions_to_keep_set = {}
    /\ removed = {}
    /\ result = None
    /\ error = ""
    /\ written = {}

Old == "old"

\* A directory left by earlier runs: canonical and pinned files of both
\* projects.
StaleDir ==
    (CanonicalFile(<<"t">>) :> Old)
    @@ (PinnedFile(<<"t">>, <<"1", ".", "8">>) :> Old)
    @@ (PinnedFile(<<"t">>, <<"1", ".", "9">>) :> Old)
    @@ (PinnedFile(<<"x", "t">>, <<"1", ".", "8">>) :> Old)

InitialDirs == {<< >>, StaleDir}

\* load_config: the project lists of the configuration files considered.
Configs ==
    {<<Project(Repo_t, << >>, "", k, << >>),
       Project(Repo_xt, << >>, "", 1, << >>)>> : k \in 0..MaxKeep}

Filters == {None, <<"t">>, Repo_xt, <<"z">>}

InitWith(configs, filters, dirs) ==
    /\ pc = "filter"
    /\ projects \in configs
    /\ args_project \in filters
    /\ dry_run \in BOOLEAN
    /\ formula_dir \in dirs
    /\ dir_before = formula_dir
    /\ idx = 0
    /\ success_count = 0
    /\ exit_status = << >>
    /\ calls = << >>
    /\ LocalsInit

Init == InitWith(Configs, Filters, InitialDirs)

(***************************************************************************)
(* main                                                                    *)
(***************************************************************************)
\* args.project in (p.repo, p.name, p.repo.split("/")[-1])
FilterMatches(p, wanted) ==
    wanted \in {p.repo, p.name, Split(p.repo, {"/"})[Len(Split(p.repo, {"/"}))]}

\* Lines 508-516: the project filter.
FilterProjects ==
    /\ pc = "filter"
    /\ LET keep(p) == FilterMatches(p, args_project)
           filtered == IF args_project = None THEN projects
                       ELSE SelectSeq(projects, keep)
       IN  /\ projects' = filtered
           /\ IF args_project # None /\ filtered = << >>
              THEN /\ exit_status' = <<1>>
                   /\ pc' = "exit"
              ELSE /\ exit_status' = exit_status
                   /\ pc' = "main_loop"
    /\ UNCHANGED <<args_project, dry_run, formula_dir, idx, success_count, calls,
                   project, fetchVars, vi, generated_releases, gi,
                   versions_to_keep_set, removed, result, error, dir_before, written>>

\* The locals of a process_project call that starts on project p; with
\* NoProject, the frame is gone.
FreshLocals(p) ==
    /\ project' = p
    /\ releases_data' = << >>
    /\ releases_by_minor' = << >>
    /\ sorted_versions' = << >>
    /\ versions_to_keep' = << >>
    /\ vi' = 0
    /\ generated_releases' = << >>
    /\ gi' = 0
    /\ versions_to_keep_set' = {}
    /\ removed' = {}
    /\ result' = None
    /\ error' = ""
    /\ written' = {}

\* A mutant: the loop stops at the first project that fails.
LoopFinished_break_on_failure(i, n, successes) == i = n \/ successes < i

\* Whether the for loop of lines 527-529 has run out of projects.
LoopFinished(i, n, successes) == i = n

\* A mutant: the comparison of line 533 is turned round.
ExitStatus_inverted(successes, n) == IF successes < n THEN 0 ELSE 1

\* Lines 533-534: sys.exit(1) when a project failed, else the interpreter's 0.
ExitStatus(successes, n) == IF successes < n THEN 1 ELSE 0

\* Line 528: the loop calls process_project on its next project.
CallProcessProject ==
    /\ pc = "main_loop"
    /\ ~LoopFinished(idx, Len(projects), success_count)
    /\ FreshLocals(projects[idx + 1])
    /\ dir_before' = formula_dir
    /\ pc' = IF projects[idx + 1].description = << >> \/ projects[idx + 1].license = ""
             THEN "get_repo" ELSE "get_releases"
    /\ UNCHANGED <<mainVars, formula_dir>>

\* Lines 528-529: process_project has returned.
ReturnToMain ==
    /\ pc = "return"
    /\ success_count' = IF result = True THEN success_count + 1 ELSE success_count
    /\ calls' = Append(calls, [name |-> project.name, result |-> result, error |-> error])
    /\ idx' = idx + 1
    /\ pc' = "main_loop"
    /\ FreshLocals(NoProject)
    /\ dir_before' = formula_dir
    /\ UNCHANGED <<projects, args_project, dry_run, exit_status, formula_dir>>

\* Lines 531-534: the loop is over and the process exits.
Exit ==
    /\ pc = "main_loop"
    /\ LoopFinished(idx, Len(projects), success_count)
    /\ exit_status' = <<ExitStatus(success_count, Len(projects))>>
    /\ pc' = "exit"
    /\ UNCHANGED <<projects, args_project, dry_run, formula_dir, idx, success_count,
                   calls, project, fetchVars, vi, generated_releases, gi,
                   versions_to_keep_set, removed, result, error, dir_before, written>>

(***************************************************************************)
(* process_project                                                         *)
(***************************************************************************)
\* "return False", and an exception caught at line 453.
Fail(why) ==
    /\ result' = False
    /\ error' = why
    /\ pc' = "return"

\* Lines 336-342: description and license are filled in from the repository.
GetRepo ==
    /\ pc = "get_repo"
    /\ \/ LET repo_info == RepoInfo(project.repo) IN
            /\ project' =
                 [project EXCEPT
                    !.description =
                        IF project.description # << >> THEN project.description
                        ELSE IF repo_info.description # << >> THEN repo_info.description
                        ELSE project.name \o <<" CLI tool">>,
                    !.license =
                        IF project.license # "" THEN project.license
                        ELSE IF repo_info.license # << >>
                             THEN repo_info.license[1].spdx_id
                             ELSE "MIT"]
            /\ pc' = "get_releases"
            /\ UNCHANGED <<result, error>>
       \/ \* _request raises: 404, 403 or another HTTP error
          /\ Fail("api error")
          /\ UNCHANGED project
    /\ UNCHANGED <<mainVars, formula_dir, fetchVars, vi, generated_releases, gi,
                   versions_to_keep_set, removed, dir_before, written>>

\* Lines 345-348.
GetReleases ==
    /\ pc = "get_releases"
    /\ \/ \E answer \in ReleaseLists(project.repo) :
            IF answer = << >>
            THEN /\ Fail("no releases")
                 /\ UNCHANGED releases_data
            ELSE /\ releases_data' = answer
                 /\ pc' = "group"
                 /\ UNCHANGED <<result, error>>
       \/ /\ Fail("api error")
          /\ UNCHANGED releases_data
    /\ UNCHANGED <<mainVars, formula_dir, project, releases_by_minor, sorted_versions,
                   versions_to_keep, vi, generated_releases, gi,
                   versions_to_keep_set, removed, dir_before, written>>

\* Lines 351-362 over the first n releases: the first release seen for each
\* major.minor key, drafts and prereleases skipped.
RECURSIVE GroupByMinor(_, _)
GroupByMinor(data, n) ==
    IF n = 0 THEN << >>
    ELSE LET before == GroupByMinor(data, n - 1)
             release_data == data[n]
             tag == release_data.tag_name
             version == extract_version(tag)
             major_minor == extract_major_minor(version)
         IN  IF release_data.prerelease \/ release_data.draft THEN before
             ELSE IF \E i \in 1..Len(before) : before[i].major_minor = major_minor
                  THEN before
                  ELSE Append(before, [major_minor |-> major_minor,
                                       release_data |-> release_data])

Keys(by_minor) == [i \in 1..Len(by_minor) |-> by_minor[i].major_minor]

\* sorted_versions[:keep_versions + 1]
Slice(sorted, keep_versions) ==
    SubSeq(sorted, 1, IF keep_versions + 1 < Len(sorted) THEN keep_versions + 1 ELSE Len(sorted))

\* Lines 351-380: group, sort, select.
SelectVersions ==
    /\ pc = "group"
    /\ \E by_minor \in {GroupByMinor(releases_data, Len(releases_data))} :
           IF by_minor = << >>
           THEN /\ Fail("no valid releases")
                /\ UNCHANGED <<releases_by_minor, sorted_versions, versions_to_keep, vi>>
           ELSE IF \E i \in 1..Len(by_minor) : SortKeyRaises(by_minor[i].major_minor)
           THEN \* int() raises ValueError inside sorted()
                /\ releases_by_minor' = by_minor
                /\ Fail("unparsable version")
                /\ UNCHANGED <<sorted_versions, versions_to_keep, vi>>
           ELSE /\ releases_by_minor' = by_minor
                /\ sorted_versions' = SortedDescending(Keys(by_minor))
                /\ versions_to_keep' = Slice(SortedDescending(Keys(by_minor)),
                                             project.keep_versions)
                /\ vi' = 1
                /\ pc' = "process_version"
                /\ UNCHANGED <<result, error>>
    /\ UNCHANGED <<mainVars, formula_dir, project, releases_data, generated_releases,
                   gi, versions_to_keep_set, removed, dir_before, written>>

latest_version == sorted_versions[1]

\* releases_by_minor[major_minor]
ReleaseOfMinor(major_minor) ==
    LET i == CHOOSE k \in 1..Len(releases_by_minor) :
                 releases_by_minor[k].major_minor = major_minor
    IN  releases_by_minor[i].release_data

\* compute_sha256(url): the digest of what the URL serves.
compute_sha256(url) == <<"sha256">> \o url

\* The loop of lines 385-412 as it would be if each formula were written as
\* soon as its release is hashed, before the next release is downloaded.
ProcessVersion_writes_as_it_goes ==
    /\ pc = "process_version"
    /\ vi <= Len(versions_to_keep)
    /\ \E assets \in {find_release_assets(
                          (LET i == CHOOSE k \in 1..Len(releases_by_minor) :
                                        releases_by_minor[k].major_minor = versions_to_keep[vi]
                           IN  releases_by_minor[i].release_data), project)} :
       LET major_minor == versions_to_keep[vi]
           release_data == (LET i == CHOOSE k \in 1..Len(releases_by_minor) :
                                         releases_by_minor[k].major_minor = major_minor
                            IN  releases_by_minor[i].release_data)
           tag == release_data.tag_name
           version == extract_version(tag)
           hashed == [p \in DOMAIN assets |->
                         [assets[p] EXCEPT !.sha256 = <<"sha256">> \o assets[p].url]]
           release == [tag |-> tag, version |-> version,
                       major_minor |-> major_minor, assets |-> hashed]
           files == IF dry_run THEN << >>
                    ELSE (IF project.keep_versions > 0
                          THEN PinnedFile(project.name, major_minor)
                                   :> generate_formula(project, release, TRUE)
                          ELSE << >>)
                         @@ (IF major_minor = sorted_versions[1]
                             THEN CanonicalFile(project.name)
                                      :> generate_formula(project, release, FALSE)
                             ELSE << >>)
       IN  IF DOMAIN assets = {}
           THEN /\ vi' = vi + 1
                /\ UNCHANGED <<generated_releases, pc, result, error,
                               formula_dir, written>>
           ELSE \/ /\ generated_releases' = Append(generated_releases, release)
                   /\ formula_dir' = files @@ formula_dir
                   /\ written' = written \cup DOMAIN files
                   /\ vi' = vi + 1
                   /\ UNCHANGED <<pc, result, error>>
                \/ /\ result' = False
                   /\ error' = "download error"
                   /\ pc' = "return"
                   /\ UNCHANGED <<generated_releases, vi, formula_dir, written>>
    /\ UNCHANGED <<mainVars, project, fetchVars, gi,
                   versions_to_keep_set, removed, dir_before>>

\* Lines 385-412, one iteration: classify the release's assets, download and
\* hash them, record the Release.
ProcessVersion ==
    /\ pc = "process_version"
    /\ vi <= Len(versions_to_keep)
    /\ \E assets \in {find_release_assets(ReleaseOfMinor(versions_to_keep[vi]), project)} :
       LET major_minor == versions_to_keep[vi]
           release_data == ReleaseOfMinor(major_minor)
           tag == release_data.tag_name
           version == extract_version(tag)
           hashed == [p \in DOMAIN assets |->
                         [assets[p] EXCEPT !.sha256 = compute_sha256(assets[p].url)]]
       IN  IF DOMAIN assets = {}
           THEN \* WARNING: No compatible assets found, skipping
                /\ vi' = vi + 1
                /\ UNCHANGED <<generated_releases, pc, result, error>>
           ELSE \/ /\ generated_releases' =
                        Append(generated_releases,
                               [tag |-> tag, version |-> version,
                                major_minor |-> major_minor, assets |-> hashed])
                   /\ vi' = vi + 1
                   /\ UNCHANGED <<pc, result, error>>
                \/ \* urlopen raises while an asset is downloaded
                   /\ Fail("download error")
                   /\ UNCHANGED <<generated_releases, vi>>
    /\ UNCHANGED <<mainVars, formula_dir, project, fetchVars, gi,
                   versions_to_keep_set, removed, dir_before, written>>

\* Lines 414-416: the loop over versions_to_keep is over.
VersionsProcessed ==
    /\ pc = "process_version"
    /\ vi > Len(versions_to_keep)
    /\ IF generated_releases = << >>
       THEN /\ Fail("no releases could be processed")
            /\ UNCHANGED gi
       ELSE /\ gi' = 1
            /\ pc' = "generate"
            /\ UNCHANGED <<result, error>>
    /\ UNCHANGED <<mainVars, formula_dir, project, fetchVars, vi, generated_releases,
                   versions_to_keep_set, removed, dir_before, written>>

\* Lines 425 and 437: files are written unless the run is a dry run.
WritesFiles(dry) == ~dry

\* Line 420.
IsLatest(major_minor) == major_minor = latest_version

\* Lines 419-444, one iteration: the canonical formula for the latest minor,
\* and the pinned formula when keep_versions > 0.  Opening a file for writing
\* may raise OSError, which line 453 catches.
GenerateFormula ==
    /\ pc = "generate"
    /\ gi <= Len(generated_releases)
    /\ LET release == generated_releases[gi]
           \* what is written to the canonical and to the pinned file
           canonical == IF IsLatest(release.major_minor) /\ WritesFiles(dry_run)
                        THEN CanonicalFile(project.name)
                                 :> generate_formula(project, release, FALSE)
                        ELSE << >>
           pinned == IF project.keep_versions > 0 /\ WritesFiles(dry_run)
                     THEN PinnedFile(project.name, release.major_minor)
                              :> generate_formula(project, release, TRUE)
                     ELSE << >>
       IN  \/ \E files \in {pinned @@ canonical} :
                  /\ formula_dir' = files @@ formula_dir
                  /\ written' = written \cup DOMAIN files
                  /\ gi' = gi + 1
                  /\ UNCHANGED <<pc, result, error>>
           \/ \* open() raises at the canonical file (line 430)
              /\ DOMAIN canonical # {}
              /\ Fail("write error")
              /\ UNCHANGED <<formula_dir, written, gi>>
           \/ \* open() raises at the pinned file (line 442), the canonical
              \* file of this iteration being already written
              /\ DOMAIN pinned # {}
              /\ formula_dir' = canonical @@ formula_dir
              /\ written' = written \cup DOMAIN canonical
              /\ Fail("write error")
              /\ UNCHANGED gi
    /\ UNCHANGED <<mainVars, project, fetchVars, vi, generated_releases,
                   versions_to_keep_set, removed, dir_before>>

\* Line 447.
CleansUp(keep_versions) == keep_versions > 0

\* Lines 446-451: the loop over generated_releases is over; clean up, return.
CleanupAndReturn ==
    /\ pc = "generate"
    /\ gi > Len(generated_releases)
    /\ IF CleansUp(project.keep_versions)
       THEN LET keep == {generated_releases[i].major_minor :
                            i \in 1..Len(generated_releases)}
            IN  \E done \in {cleanup_old_versions(formula_dir, project.name, keep, dry_run)} :
                    /\ versions_to_keep_set' = keep
                    /\ removed' = done.removed
                    /\ formula_dir' = done.formula_dir
       ELSE UNCHANGED <<versions_to_keep_set, removed, formula_dir>>
    /\ result' = True
    /\ pc' = "return"
    /\ UNCHANGED <<mainVars, project, fetchVars, vi, generated_releases, gi,
                   error, dir_before, written>>

Next ==
    \/ FilterProjects
    \/ CallProcessProject
    \/ GetRepo
    \/ GetReleases
    \/ SelectVersions
    \/ ProcessVersion
    \/ VersionsProcessed
    \/ GenerateFormula
    \/ CleanupAndReturn
    \/ ReturnToMain
    \/ Exit

Spec == Init /\ [][Next]_vars

(***************************************************************************)
(* The properties checked of the whole run (specification Spec).           *)
(***************************************************************************)
\* process_project has returned True and the run is no dry run.
SucceededForReal == pc = "return" /\ result = True /\ ~dry_run

\* The minor a file name <project_name>@<major.minor>.rb is pinned to, read off
\* the name from both ends (<< >>: the name is of another shape).
PinnedMinor(project_name, file_name) ==
    IF /\ StartsWith(file_name, project_name \o <<"@">>)
       /\ EndsWith(file_name, W_rb)
       /\ Len(file_name) > Len(project_name) + 1 + Len(W_rb)
    THEN SubSeq(file_name, Len(project_name) + 2, Len(file_name) - Len(W_rb))
    ELSE << >>

\* The pinned files of a project: <project_name>@<major>.<minor>.rb.
IsPinnedFile(project_name, file_name) ==
    IsDigitsDotDigits(PinnedMinor(project_name, file_name))

\* C1: whenever process_project returns success in a run that is no dry run,
\* the canonical file <project.name>.rb was written during the call and holds
\* the formula of the latest minor, the first of sorted_versions.
C1_CanonicalIsLatest ==
    SucceededForReal =>
        /\ CanonicalFile(project.name) \in written
        /\ formula_dir[CanonicalFile(project.name)].version =
               extract_version(ReleaseOfMinor(latest_version).tag_name)

\* C2: after a successful call that is no dry run, for every keep_versions >= 0,
\* no pinned file of the project is left whose minor is not retained by the
\* call.
C2_NoStalePinnedFile ==
    SucceededForReal =>
        \A f \in DOMAIN formula_dir :
            IsPinnedFile(project.name, f) =>
                \E i \in 1..Len(versions_to_keep) :
                    versions_to_keep[i] = PinnedMinor(project.name, f)

\* C4: in a dry run the directory is never changed, whatever the outcome: no
\* file is created, overwritten or deleted, and the files the cleanup reports
\* are the pinned files a run that is no dry run would delete.
C4_DryRunFrame ==
    dry_run =>
        /\ formula_dir = dir_before
        /\ written = {}
        /\ (pc = "return" /\ result = True /\ project.keep_versions > 0) =>
               removed = {f \in DOMAIN formula_dir :
                             /\ IsPinnedFile(project.name, f)
                             /\ PinnedMinor(project.name, f) \notin versions_to_keep_set}

\* A dry run has succeeded and reported a file it left in place.
C4_Witness ==
    /\ dry_run
    /\ pc = "return"
    /\ result = True
    /\ removed # {}
    /\ removed \subseteq DOMAIN formula_dir

\* The selected projects whose call returned True, among the first n calls.
RECURSIVE Successes(_)
Successes(n) ==
    IF n = 0 THEN 0
    ELSE Successes(n - 1) + (IF calls[n].result = True THEN 1 ELSE 0)

\* C5: with a non-empty selection, main exits with status 0 if and only if
\* process_project returned True for every selected project, and with status
\* 1 if a selected project failed.
C5_ExitStatus ==
    (pc = "exit" /\ Len(projects) > 0) =>
        /\ Len(calls) = Len(projects)
        /\ exit_status = <<0>> <=> \A i \in 1..Len(calls) : calls[i].result = True
        /\ exit_status = <<1>> <=> \E i \in 1..Len(calls) : calls[i].result = False

\* Two projects were selected, the first succeeded, the second failed, and the
\* process has exited.
C5_Witness ==
    /\ pc = "exit"
    /\ Len(calls) = 2
    /\ calls[1].result = True
    /\ calls[2].result = False
    /\ exit_status = <<1>>

\* C6: a failure aborts only its project: the calls made are the selected
\* projects in configuration order, one call each, whatever the earlier calls
\* returned; when main exits every selected project has been called; and
\* every failure is counted (success_count is the number of True results).
C6_EveryProjectOnce ==
    pc # "filter" =>
        /\ Len(calls) = idx
        /\ idx <= Len(projects)
        /\ \A i \in 1..Len(calls) : calls[i].name = projects[i].name
        /\ success_count = Successes(Len(calls))
        /\ (pc = "exit" /\ Len(projects) > 0) => Len(calls) = Len(projects)
        /\ \A i \in 1..Len(calls) : calls[i].result = False <=> calls[i].error # ""

\* The first project failed while an asset was downloaded, the second project
\* was processed all the same and succeeded, and the failure was counted.
C6_Witness ==
    /\ pc = "exit"
    /\ Len(calls) = 2
    /\ calls[1].result = False
    /\ calls[1].error = "download error"
    /\ calls[2].result = True
    /\ success_count = 1

\* C7: versions_to_keep is the first min(keep_versions + 1, number of minors)
\* entries of the minors in numerically descending order; its minors are
\* pairwise distinct as numbers and strictly descending; keep_versions = 0
\* gives exactly one minor.
C7_RetainedWindow ==
    (pc = "process_version") =>
        /\ Len(versions_to_keep) =
               (IF project.keep_versions + 1 < Len(releases_by_minor)
                THEN project.keep_versions + 1 ELSE Len(releases_by_minor))
        /\ \A i \in 1..Len(versions_to_keep) :
               /\ \E k \in 1..Len(releases_by_minor) :
                      releases_by_minor[k].major_minor = versions_to_keep[i]
               /\ \A j \in 1..Len(versions_to_keep) :
                      i < j => ListLess(SortKey(versions_to_keep[j]),
                                        SortKey(versions_to_keep[i]))
               /\ \A k \in 1..Len(releases_by_minor) :
                      (\A j \in 1..Len(versions_to_keep) :
                           versions_to_keep[j] # releases_by_minor[k].major_minor)
                      => ~ListLess(SortKey(versions_to_keep[i]),
                                   SortKey(releases_by_minor[k].major_minor))
        /\ project.keep_versions = 0 => Len(versions_to_keep) = 1

\* The positions of process_project at which a network step is still to come:
\* repository metadata, the release list, and the downloads of the retained
\* minors (grouping and selection lie between them).
NetworkPhase == {"get_repo", "get_releases", "group", "process_version"}

\* The failures of a network step or of what it returned: an API error, an
\* empty release list, a list of drafts and prereleases only, a download
\* error, and no assets in any retained minor.
NetworkFailures ==
    {"api error", "no releases", "no valid releases", "download error",
     "no releases could be processed"}

\* The directory is as it was when process_project was called: nothing
\* written, nothing deleted.
DirUntouched == formula_dir = dir_before /\ written = {} /\ removed = {}

\* C11: every network step of process_project completes before the first
\* file write or delete: while a network step is still to come the directory
\* is untouched, and when the project fails because of an API error, an empty
\* or all-prerelease release list, a download error or no assets in any
\* retained minor, the directory is exactly as it was before the project
\* started.
C11_NetworkBeforeWrites ==
    /\ pc \in NetworkPhase => DirUntouched
    /\ (pc = "return" /\ result = False /\ error \in NetworkFailures) => DirUntouched

\* A run that is no dry run, on a directory that holds files, where two minors
\* are retained, the first is downloaded and hashed, and the download of the
\* second fails.
C11_Witness ==
    /\ pc = "return"
    /\ result = False
    /\ error = "download error"
    /\ ~dry_run
    /\ Len(versions_to_keep) = 2
    /\ vi = 2
    /\ Len(generated_releases) = 1
    /\ generated_releases[1].major_minor = latest_version
    /\ formula_dir = StaleDir

(***************************************************************************)
(* cleanup_old_versions on any directory and any retained set              *)
(* (specification SpecCleanup).                                            *)
(***************************************************************************)
\* The file names a directory may hold: the canonical file and pinned files of
\* project t, names the glob matches that are no pinned file, and files of
\* other projects.
CleanupFiles ==
    { CanonicalFile(<<"t">>),
      PinnedFile(<<"t">>, <<"1", ".", "1", "0">>),
      PinnedFile(<<"t">>, <<"1", ".", "9">>),
      PinnedFile(<<"t">>, <<"1", ".", "0", "9">>),
      PinnedFile(<<"t">>, <<"2">>),
      PinnedFile(<<"t">>, <<"1", ".", "9", ".", "1">>),
      PinnedFile(<<"x", "t">>, <<"1", ".", "9">>),
      CanonicalFile(<<"x", "t">>) }

CleanupVersions == {<<"1", ".", "1", "0">>, <<"1", ".", "9">>, <<"2", ".", "0">>}

InitCleanup ==
    /\ pc = "cleanup_call"
    /\ projects = << >>
    /\ args_project = None
    /\ dry_run \in BOOLEAN
    /\ \E present \in SUBSET CleanupFiles : formula_dir = [f \in present |-> Old]
    /\ dir_before = formula_dir
    /\ idx = 0
    /\ success_count = 0
    /\ exit_status = << >>
    /\ calls = << >>
    /\ project = Project(Repo_t, << >>, "", 0, << >>)
    /\ releases_data = << >>
    /\ releases_by_minor = << >>
    /\ sorted_versions = << >>
    /\ versions_to_keep = << >>
    /\ vi = 0
    /\ generated_releases = << >>
    /\ gi = 0
    /\ versions_to_keep_set \in SUBSET CleanupVersions
    /\ removed = {}
    /\ result = None
    /\ error = ""
    /\ written = {}

\* A call cleanup_old_versions(formula_dir, project.name, versions_to_keep_set,
\* dry_run).
CallCleanup ==
    /\ pc = "cleanup_call"
    /\ \E done \in {cleanup_old_versions(formula_dir, project.name,
                                         versions_to_keep_set, dry_run)} :
           /\ removed' = done.removed
           /\ formula_dir' = done.formula_dir
    /\ pc' = "cleanup_done"
    /\ UNCHANGED <<mainVars, project, fetchVars, vi, generated_releases, gi,
                   versions_to_keep_set, result, error, dir_before, written>>

NextCleanup == CallCleanup

SpecCleanup == InitCleanup /\ [][NextCleanup]_vars

\* C3: a cleanup that is no dry run deletes exactly the existing pinned files
\* of the project whose minor is not in the retained set, and returns exactly
\* those; every other file is left in place with its content.
C3_CleanupExact ==
    (pc = "cleanup_done" /\ ~dry_run) =>
        /\ removed = {f \in DOMAIN dir_before :
                         /\ IsPinnedFile(project.name, f)
                         /\ PinnedMinor(project.name, f) \notin versions_to_keep_set}
        /\ DOMAIN formula_dir = DOMAIN dir_before \ removed
        /\ \A f \in DOMAIN formula_dir : formula_dir[f] = dir_before[f]

\* A cleanup with the retained set {1.10, 1.9} has deleted the pinned file of
\* 1.09 and left the two retained pinned files, the canonical file and another
\* project's pinned file.
C3_Witness ==
    /\ pc = "cleanup_done"
    /\ ~dry_run
    /\ versions_to_keep_set = {<<"1", ".", "1", "0">>, <<"1", ".", "9">>}
    /\ removed = {PinnedFile(<<"t">>, <<"1", ".", "0", "9">>)}
    /\ DOMAIN formula_dir = { CanonicalFile(<<"t">>),
                              PinnedFile(<<"t">>, <<"1", ".", "1", "0">>),
                              PinnedFile(<<"t">>, <<"1", ".", "9">>),
                              PinnedFile(<<"x", "t">>, <<"1", ".", "9">>) }

(***************************************************************************)
(* A repository whose release carries any tag (specification SpecTags).    *)
(***************************************************************************)
InitTags ==
    InitWith({<<Project(Repo_g, << >>, "", k, << >>)>> : k \in 0..MaxKeep},
             {None}, {<< >>})

SpecTags == InitTags /\ [][Next]_vars

\* C8: for every tag with a leading prefix letter, extract_version removes
\* exactly that letter and nothing else: the version is the tag without its
\* first character.
C8_ExactlyOneLetterRemoved ==
    \A i \in 1..Len(generated_releases) :
        Head(generated_releases[i].tag) = "v" =>
            generated_releases[i].version = Tail(generated_releases[i].tag)

\* Homebrew's evaluation of a url string: #{version} is replaced by the
\* formula's declared version.
EvalUrl(url, version) == Replace(url, <<"#{version}">>, version)

\* The url lines of a written formula.
FormulaUrls(formula) ==
    {formula.on_macos[i].url : i \in 1..Len(formula.on_macos)}
    \cup {formula.on_linux[i].url : i \in 1..Len(formula.on_linux)}

\* The download URLs the API gave for the releases of the current call.
ApiUrls ==
    UNION {{releases_data[i].assets[j].url : j \in 1..Len(releases_data[i].assets)} :
              i \in 1..Len(releases_data)}

\* C9: every URL of a formula written by the call, with #{version} evaluated
\* against the version the formula declares, is the download URL the API gave
\* for the asset.
C9_UrlRoundTrip ==
    \A f \in written :
        \A url \in FormulaUrls(formula_dir[f]) :
            EvalUrl(url, formula_dir[f].version) \in ApiUrls

(***************************************************************************)
(* A repository whose release carries any asset list (specification        *)
(* SpecAssets).                                                            *)
(***************************************************************************)
InitAssets ==
    InitWith({<<Project(Repo_a, << >>, "", 0, patterns)>> :
                 patterns \in {<< >>, CustomPatterns}},
             {None}, {<< >>})

SpecAssets == InitAssets /\ [][Next]_vars

\* The slots whose test an asset name passes, as positions in the order the
\* slots are tested in: the project's patterns when it declares some, else
\* the built-in patterns on names with an archive extension.
SlotsMatched(name, asset_patterns) ==
    IF Len(asset_patterns) > 0
    THEN {k \in 1..Len(asset_patterns) :
             Contains(Lower(name), Lower(asset_patterns[k].pattern))}
    ELSE IF HasArchiveExtension(Lower(name))
         THEN {k \in 1..Len(PLATFORM_PATTERNS) : PlatformMatches(k, Lower(name))}
         ELSE {}

SlotName(k, asset_patterns) ==
    IF Len(asset_patterns) > 0 THEN asset_patterns[k].platform
    ELSE PLATFORM_PATTERNS[k].platform

=============================================================================
